---- MODULE Spec2Model ----
(***************************************************************************)
(* Image search service: the upload / delete orchestration of the HTTP     *)
(* handlers (app/routers), the S3 blob store (app/services/s3_service),    *)
(* the metadata catalog with its full-text index (app/services/db_service) *)
(* and the in-memory vector store (app/services/vector_store).             *)
(*                                                                         *)
(* Text values are sequences of one-character strings, so that rsplit,     *)
(* split, lower and f-string formatting are computed as the code computes  *)
(* them.  Every HTTP handler is one action: the handlers contain no await  *)
(* after the body has been read, so each runs to completion on the event   *)
(* loop.  The order of the store calls inside a handler is kept in the     *)
(* response record (field steps).                                          *)
(* SpecDeadline splits a handler at the external call it waits for, and    *)
(* SpecScan splits a search of the vector store at the rounds of its loop. *)
(***************************************************************************)
EXTENDS Integers, Sequences, FiniteSets, TLC

VARIABLES
    blobs,        \* S3 bucket: function from object key to the stored body
    images,       \* catalog: rows of table images
    images_fts,   \* catalog: entries of the FTS5 table images_fts (SQLite backend)
    is_postgres,  \* DatabaseService.is_postgres, fixed at construction
    uuid_next,    \* the next value uuid.uuid4() yields (fresh ids, in issue order)
    now,          \* CURRENT_TIMESTAMP of the database, in seconds
    vectors,      \* InMemoryVectorStore.vectors: dict in insertion order
    metadata,     \* InMemoryVectorStore.metadata
    urls,         \* InMemoryVectorStore.urls
    resp,         \* the last completed call: its inputs, outcome and store steps
    created       \* history: the arguments of each create_image call that returned an
                  \* id which no committed delete_image has named since

vars == <<blobs, images, images_fts, is_postgres, uuid_next, now,
          vectors, metadata, urls, resp, created>>

-----------------------------------------------------------------------------
(* Bounds of the model *)

MaxImages == 2      \* uuid4 values issued in one behaviour
MaxTime == 1        \* last value of the database clock
MaxVectors == 3     \* ids the vector store is called with
MaxTopK == 3        \* largest top_k passed to search

NONE == <<"None">>  \* Python None / SQL NULL, where the value is otherwise a str

-----------------------------------------------------------------------------
(* Python str helpers *)

\* Largest index of character c in s, 0 when c does not occur
LastIndexOf(s, c) ==
    LET hits == {i \in 1..Len(s) : s[i] = c}
    IN IF hits = {} THEN 0 ELSE CHOOSE i \in hits : \A j \in hits : j <= i

\* s.rsplit(c, 1)[-1] and s.split(c)[-1]: what follows the last c (all of s without c)
AfterLast(s, c) == SubSeq(s, LastIndexOf(s, c) + 1, Len(s))

LowerChar(c) ==
    CASE c = "J" -> "j" [] c = "P" -> "p" [] c = "G" -> "g" [] c = "N" -> "n"
      [] c = "A" -> "a" [] c = "T" -> "t"
      [] OTHER -> c

\* s.lower()
Lower(s) == [i \in 1..Len(s) |-> LowerChar(s[i])]

\* "c" in s
HasChar(s, c) == \E i \in 1..Len(s) : s[i] = c

\* x or default
OrDefault(x, default) == IF x = NONE \/ x = <<>> THEN default ELSE x

-----------------------------------------------------------------------------
(* Literals of the source *)

S_image_jpg == <<"i","m","a","g","e",".","j","p","g">>
S_image_jpeg == <<"i","m","a","g","e","/","j","p","e","g">>
S_image_png == <<"i","m","a","g","e","/","p","n","g">>
S_image_gif == <<"i","m","a","g","e","/","g","i","f">>
S_images_slash == <<"i","m","a","g","e","s","/">>
S_https == <<"h","t","t","p","s",":","/","/">>
S_dot_s3_dot == <<".","s","3",".">>
S_amazonaws == <<".","a","m","a","z","o","n","a","w","s",".","c","o","m","/">>

S3_BUCKET_NAME == <<"b","k","t">>
AWS_REGION == <<"r","g","n">>

MAX_FILE_SIZE == 10485760
ALLOWED_MIME_TYPES == {S_image_jpeg, S_image_png}
ALLOWED_EXTENSIONS == {<<".","j","p","g">>, <<".","j","p","e","g">>, <<".","p","n","g">>}

-----------------------------------------------------------------------------
(* Uploaded files.  The body is abstracted to its length, whether PIL can  *)
(* open and verify it, and the size PIL reports.                           *)

Body(len, ok) == [len |-> len, decodes |-> ok, width |-> 4, height |-> 3]

File(body, filename, content_type) ==
    [body |-> body, filename |-> filename, content_type |-> content_type]

-----------------------------------------------------------------------------
(* ImageService *)

\* the extension validate_image derives from the file name
FileExt(filename) ==
    IF HasChar(filename, ".") THEN <<".">> \o Lower(AfterLast(filename, ".")) ELSE <<>>

\* validate_image without its extension check
validate_image_skips_extension(file_content, filename, mime_type) ==
    IF file_content.len > MAX_FILE_SIZE THEN "size"
    ELSE IF mime_type \notin ALLOWED_MIME_TYPES THEN "mime"
    ELSE IF ~file_content.decodes THEN "decode"
    ELSE "ok"

\* ImageService.validate_image: "ok", or the ValueError it raises
validate_image(file_content, filename, mime_type) ==
    IF file_content.len > MAX_FILE_SIZE THEN "size"
    ELSE IF mime_type \notin ALLOWED_MIME_TYPES THEN "mime"
    ELSE IF FileExt(filename) \notin ALLOWED_EXTENSIONS THEN "extension"
    ELSE IF ~file_content.decodes THEN "decode"
    ELSE "ok"

\* ImageService.get_image_dimensions
get_image_dimensions(file_content) ==
    IF file_content.decodes THEN <<file_content.width, file_content.height>>
    ELSE <<0, 0>>

-----------------------------------------------------------------------------
(* Python call protocol *)

\* Binding a call's positional arguments to a method's parameters (self
\* aside): fewer than the required ones, or more than there are, is a TypeError
BindsTo(args, required, optional) ==
    Len(args) >= required /\ Len(args) <= required + optional

\* "a, b = value": iterates value, which must yield exactly two items
UnpackPair(value) ==
    IF Len(value) = 2
    THEN [exc |-> "none", first |-> value[1], second |-> value[2]]
    ELSE [exc |-> "ValueError", first |-> NONE, second |-> NONE]

-----------------------------------------------------------------------------
(* S3Service.  A bucket is a function from keys to bodies. *)

S3Key(image_id, file_extension) ==
    S_images_slash \o image_id \o <<".">> \o file_extension

S3Url(s3_key) ==
    S_https \o S3_BUCKET_NAME \o S_dot_s3_dot \o AWS_REGION \o S_amazonaws \o s3_key

PutObject(bucket, key, body) ==
    [k \in DOMAIN bucket \cup {key} |-> IF k = key THEN body ELSE bucket[k]]

DeleteObject(bucket, key) ==
    [k \in DOMAIN bucket \ {key} |-> bucket[k]]

\* S3Service.upload_image(image_bytes, image_id, content_type) -> str.
\* fault: put_object raises ClientError, re-raised as Exception.
s3_upload_image(bucket, args, fault) ==
    IF ~BindsTo(args, 3, 0)
    THEN [exc |-> "TypeError", blobs |-> bucket, ret |-> NONE, key |-> NONE]
    ELSE LET image_bytes == args[1]
             image_id == args[2]
             content_type == args[3]
             file_extension == AfterLast(content_type, "/")
             s3_key == S3Key(image_id, file_extension)
         IN IF fault
            THEN [exc |-> "Exception", blobs |-> bucket, ret |-> NONE, key |-> NONE]
            ELSE [exc |-> "none",
                  blobs |-> PutObject(bucket, s3_key, image_bytes),
                  ret |-> S3Url(s3_key),
                  key |-> s3_key]

\* S3Service.delete_image(image_id, file_extension) -> None.
\* delete_object of an absent key succeeds.
s3_delete_image(bucket, args, fault) ==
    IF ~BindsTo(args, 2, 0)
    THEN [exc |-> "TypeError", blobs |-> bucket]
    ELSE IF fault
    THEN [exc |-> "Exception", blobs |-> bucket]
    ELSE [exc |-> "none", blobs |-> DeleteObject(bucket, S3Key(args[1], args[2]))]

\* S3Service.get_presigned_url(image_id, file_extension, expiration=3600) -> str
s3_get_presigned_url(args, fault) ==
    IF ~BindsTo(args, 2, 1)
    THEN [exc |-> "TypeError", ret |-> NONE]
    ELSE IF fault
    THEN [exc |-> "Exception", ret |-> NONE]
    ELSE [exc |-> "none",
          ret |-> [key |-> S3Key(args[1], args[2]),
                   expires_in |-> IF Len(args) = 3 THEN args[3] ELSE 3600]]

-----------------------------------------------------------------------------
(* DatabaseService.  A database is [images, fts]: the rows of table images *)
(* and the entries of the FTS5 table images_fts.  The PostgreSQL backend   *)
(* has no images_fts table: its full-text index is an expression index     *)
(* over the rows of images, maintained by the engine.                      *)

DbFaults == {"none", "connect", "execute", "commit"}

\* rowid SQLite gives a new row of a table without AUTOINCREMENT
NextRowid(rows) ==
    IF rows = {} THEN 1
    ELSE 1 + (CHOOSE m \in {r.rowid : r \in rows} : \A r \in rows : r.rowid <= m)

\* what images_fts holds for a row of images
FtsEntry(row) ==
    [rowid |-> row.rowid, image_id |-> row.image_id, name |-> row.name,
     description |-> row.description, tags |-> row.tags]

\* trigger images_ai
images_ai(fts, new) == fts \cup {FtsEntry(new)}

\* an AFTER DELETE trigger that leaves the index entry in place
images_ad_keeps_entry(fts, old) == fts

\* trigger images_ad: the FTS5 'delete' command
images_ad(fts, old) == fts \ {FtsEntry(old)}

\* trigger images_au
images_au(fts, old, new) == images_ai(images_ad(fts, old), new)

\* NOT NULL and PRIMARY KEY constraints of table images
ViolatesConstraints(rows, row) ==
    \/ \E c \in {row.s3_key, row.s3_bucket, row.file_name, row.mime_type, row.name} :
          c = NONE
    \/ \E r \in rows : r.image_id = row.image_id

\* INSERT INTO images ..., with the AFTER INSERT trigger of the SQLite schema
InsertImage(db, postgres, row) ==
    [images |-> db.images \cup {row},
     fts |-> IF postgres THEN db.fts ELSE images_ai(db.fts, row)]

\* DELETE FROM images WHERE image_id = ?, with the AFTER DELETE trigger
DeleteImageRows(db, postgres, image_id) ==
    LET gone == {r \in db.images : r.image_id = image_id}
    IN [images |-> db.images \ gone,
        fts |-> IF postgres THEN db.fts
                ELSE {e \in db.fts : \A r \in gone : e \in images_ad(db.fts, r)}]

\* a connection manager whose except clause re-raises without rollback: the
\* writes of a body stay when the commit raises
get_connection_without_rollback(db, written, fault) ==
    [db |-> IF fault \in {"none", "commit"} THEN written ELSE db,
     calls |-> CASE fault = "none" -> <<"connect", "commit", "close">>
                 [] fault = "connect" -> <<>>
                 [] fault = "execute" -> <<"connect", "close">>
                 [] fault = "commit" -> <<"connect", "commit", "close">>]

\* _get_connection around a body that turns db into written.  fault: the
\* call that raises (connect, a statement of the body, commit).  calls: the
\* calls made on the connection, in order; connect raises before the try, so
\* there is no connection to roll back or close.
get_connection(db, written, fault) ==
    [db |-> IF fault = "none" THEN written ELSE db,
     calls |-> CASE fault = "none" -> <<"connect", "commit", "close">>
                 [] fault = "connect" -> <<>>
                 [] fault = "execute" -> <<"connect", "rollback", "close">>
                 [] fault = "commit" -> <<"connect", "commit", "rollback", "close">>]

\* the database after _get_connection: the body's writes are committed when
\* the body and the commit complete, and rolled back when either raises
Transaction(db, written, fault) == get_connection(db, written, fault).db

\* the columns SELECT * returns
RowDict(row) ==
    [image_id |-> row.image_id, s3_key |-> row.s3_key, s3_bucket |-> row.s3_bucket,
     file_name |-> row.file_name, file_size |-> row.file_size,
     mime_type |-> row.mime_type, width |-> row.width, height |-> row.height,
     name |-> row.name, description |-> row.description, tags |-> row.tags,
     created_at |-> row.created_at, updated_at |-> row.updated_at]

\* an INSERT whose value tuple has name and description in each other's place
InsertedRowSwapped(rows, a, id, ts) ==
    [rowid |-> NextRowid(rows), image_id |-> id,
     s3_key |-> a.s3_key, s3_bucket |-> a.s3_bucket,
     file_name |-> a.file_name, file_size |-> a.file_size,
     mime_type |-> a.mime_type, width |-> a.width, height |-> a.height,
     name |-> a.description, description |-> a.name, tags |-> a.tags,
     created_at |-> ts, updated_at |-> ts]

\* the row the INSERT of create_image writes: the columns it names from the
\* value tuple, created_at and updated_at from their defaults
InsertedRow(rows, a, id, ts) ==
    [rowid |-> NextRowid(rows), image_id |-> id,
     s3_key |-> a.s3_key, s3_bucket |-> a.s3_bucket,
     file_name |-> a.file_name, file_size |-> a.file_size,
     mime_type |-> a.mime_type, width |-> a.width, height |-> a.height,
     name |-> a.name, description |-> a.description, tags |-> a.tags,
     created_at |-> ts, updated_at |-> ts]

\* DatabaseService.create_image.  a: the keyword arguments; id: uuid.uuid4();
\* ts: CURRENT_TIMESTAMP
db_create_image(db, postgres, a, id, ts, fault) ==
    LET row == InsertedRow(db.images, a, id, ts)
        f == IF fault = "none" /\ ViolatesConstraints(db.images, row)
             THEN "execute" ELSE fault
    IN [exc |-> IF f = "none" THEN "none" ELSE "Exception",
        db |-> Transaction(db, InsertImage(db, postgres, row), f),
        calls |-> get_connection(db, InsertImage(db, postgres, row), f).calls,
        ret |-> IF f = "none" THEN id ELSE 0]

\* DatabaseService.get_image: dict(row), or None
db_get_image(db, image_id, fault) ==
    LET found == {r \in db.images : r.image_id = image_id}
    IN IF fault # "none"
       THEN [exc |-> "Exception", ret |-> {}, calls |-> get_connection(db, db, fault).calls]
       ELSE [exc |-> "none", ret |-> {RowDict(r) : r \in found},
             calls |-> get_connection(db, db, fault).calls]

\* DatabaseService.delete_image: cursor.rowcount > 0
db_delete_image(db, postgres, image_id, fault) ==
    [exc |-> IF fault = "none" THEN "none" ELSE "Exception",
     db |-> Transaction(db, DeleteImageRows(db, postgres, image_id), fault),
     calls |-> get_connection(db, DeleteImageRows(db, postgres, image_id), fault).calls,
     ret |-> fault = "none" /\ \E r \in db.images : r.image_id = image_id]

-----------------------------------------------------------------------------
(* HTTP handlers of app/routers/images.py, as functions of the stores.     *)
(* st = [blobs, db, uuid]; the result carries the stores after the call,   *)
(* the HTTP status, the step that failed and the store calls that          *)
(* completed, in order.                                                    *)

\* except ValueError -> 400, except Exception -> 500
StatusOf(exc) == IF exc = "ValueError" THEN 400 ELSE 500

Outcome(st, status, failed_at, verdict, steps, put_key, image_id, image_url) ==
    [st |-> st, status |-> status, failed_at |-> failed_at, verdict |-> verdict,
     steps |-> steps, put_key |-> put_key, image_id |-> image_id,
     image_url |-> image_url]

\* upload_image (POST /api/images)
upload_image(st, postgres, ts, file, form, s3_fault, db_fault) ==
    LET image_bytes == file.body
        filename == OrDefault(file.filename, S_image_jpg)
        content_type == OrDefault(file.content_type, S_image_jpeg)
        verdict == validate_image(image_bytes, filename, content_type)
        dims == get_image_dimensions(image_bytes)
        up == s3_upload_image(st.blobs, <<image_bytes, filename, content_type>>, s3_fault)
        st_up == [st EXCEPT !.blobs = up.blobs]
        pair == UnpackPair(up.ret)
        cr == db_create_image(st.db, postgres,
                  [s3_key |-> pair.first, s3_bucket |-> S3_BUCKET_NAME,
                   file_name |-> filename, file_size |-> image_bytes.len,
                   mime_type |-> content_type, name |-> form.name,
                   width |-> dims[1], height |-> dims[2],
                   description |-> form.description, tags |-> form.tags],
                  st.uuid, ts, db_fault)
        st_cr == [st_up EXCEPT !.db = cr.db, !.uuid = st.uuid + 1]
    IN IF verdict # "ok"
       THEN Outcome(st, StatusOf("ValueError"), "validate", verdict, <<>>, NONE, 0, NONE)
       ELSE IF up.exc # "none"
       THEN Outcome(st_up, StatusOf(up.exc), "blob.put", verdict, <<>>, NONE, 0, NONE)
       ELSE IF pair.exc # "none"
       THEN Outcome(st_up, StatusOf(pair.exc), "unpack", verdict, <<"blob.put">>,
                    up.key, 0, NONE)
       ELSE IF cr.exc # "none"
       THEN Outcome(st_cr, StatusOf(cr.exc), "catalog.insert", verdict, <<"blob.put">>,
                    up.key, 0, NONE)
       ELSE Outcome(st_cr, 200, "none", verdict, <<"blob.put", "catalog.insert">>,
                    up.key, cr.ret, pair.second)

\* a delete_image whose call of the blob store succeeds: the object under the
\* row's s3_key is deleted before the row is
delete_image_deletes_blob_first(st, postgres, image_id, get_fault, s3_fault, db_fault) ==
    LET got == db_get_image(st.db, image_id, get_fault)
        image_data == CHOOSE d \in got.ret : TRUE
        st_del == [st EXCEPT !.blobs = DeleteObject(st.blobs, image_data.s3_key)]
        rm == db_delete_image(st.db, postgres, image_id, db_fault)
        st_rm == [st_del EXCEPT !.db = rm.db]
    IN IF got.exc # "none"
       THEN Outcome(st, StatusOf(got.exc), "catalog.get", "ok", <<>>, NONE, image_id, NONE)
       ELSE IF got.ret = {}
       THEN Outcome(st, 404, "not_found", "ok", <<>>, NONE, image_id, NONE)
       ELSE IF s3_fault
       THEN Outcome(st, 500, "blob.delete", "ok", <<>>, NONE, image_id, NONE)
       ELSE IF rm.exc # "none"
       THEN Outcome(st_rm, StatusOf(rm.exc), "catalog.delete", "ok", <<"blob.delete">>,
                    NONE, image_id, NONE)
       ELSE Outcome(st_rm, 200, "none", "ok", <<"blob.delete", "catalog.delete">>,
                    NONE, image_id, NONE)

\* a delete_image that answers 200 for an id the catalog does not hold
delete_image_ignores_missing(st, postgres, image_id, get_fault, s3_fault, db_fault) ==
    LET got == db_get_image(st.db, image_id, get_fault)
        rm == db_delete_image(st.db, postgres, image_id, db_fault)
    IN IF got.exc # "none"
       THEN Outcome(st, StatusOf(got.exc), "catalog.get", "ok", <<>>, NONE, image_id, NONE)
       ELSE IF rm.exc # "none"
       THEN Outcome(st, StatusOf(rm.exc), "catalog.delete", "ok", <<>>, NONE, image_id,
                    NONE)
       ELSE Outcome([st EXCEPT !.db = rm.db], 200, "none", "ok", <<"catalog.delete">>,
                    NONE, image_id, NONE)

\* delete_image (DELETE /api/images/{image_id})
delete_image(st, postgres, image_id, get_fault, s3_fault, db_fault) ==
    LET got == db_get_image(st.db, image_id, get_fault)
        image_data == CHOOSE d \in got.ret : TRUE
        del == s3_delete_image(st.blobs, <<image_data.s3_key>>, s3_fault)
        st_del == [st EXCEPT !.blobs = del.blobs]
        rm == db_delete_image(st.db, postgres, image_id, db_fault)
        st_rm == [st_del EXCEPT !.db = rm.db]
    IN IF got.exc # "none"
       THEN Outcome(st, StatusOf(got.exc), "catalog.get", "ok", <<>>, NONE, image_id, NONE)
       ELSE IF got.ret = {}
       THEN Outcome(st, 404, "not_found", "ok", <<>>, NONE, image_id, NONE)
       ELSE IF del.exc # "none"
       THEN Outcome(st, StatusOf(del.exc),
                    IF del.exc = "TypeError" THEN "blob.delete.call" ELSE "blob.delete",
                    "ok", <<>>, NONE, image_id, NONE)
       ELSE IF rm.exc # "none"
       THEN Outcome(st_rm, StatusOf(rm.exc), "catalog.delete", "ok", <<"blob.delete">>,
                    NONE, image_id, NONE)
       ELSE Outcome(st_rm, 200, "none", "ok", <<"blob.delete", "catalog.delete">>,
                    NONE, image_id, NONE)

-----------------------------------------------------------------------------
(* State, initial state and the calls *)

State == [blobs |-> blobs, db |-> [images |-> images, fts |-> images_fts],
          uuid |-> uuid_next]

NoArgs == [name |-> NONE]

Init ==
    /\ blobs = <<>>
    /\ images = {}
    /\ images_fts = {}
    /\ is_postgres \in BOOLEAN
    /\ uuid_next = 1
    /\ now = 0
    /\ vectors = <<>>
    /\ metadata = <<>>
    /\ urls = <<>>
    /\ resp = [op |-> "none", seq |-> 0, status |-> 0, failed_at |-> "none",
               verdict |-> "ok", steps |-> <<>>, put_key |-> NONE, image_id |-> 0,
               image_url |-> NONE, args |-> NoArgs]
    /\ created = <<>>

\* the stores and the response after a call of a handler
Completes(op, o, args) ==
    /\ o.st.uuid <= MaxImages + 1
    /\ blobs' = o.st.blobs
    /\ images' = o.st.db.images
    /\ images_fts' = o.st.db.fts
    /\ uuid_next' = o.st.uuid
    /\ resp' = [op |-> op, seq |-> 1 - resp.seq, status |-> o.status,
                failed_at |-> o.failed_at, verdict |-> o.verdict, steps |-> o.steps,
                put_key |-> o.put_key, image_id |-> o.image_id,
                image_url |-> o.image_url, args |-> args]
    /\ UNCHANGED <<is_postgres, now, vectors, metadata, urls>>

Ledger(led, id, a) == [i \in DOMAIN led \cup {id} |-> IF i = id THEN a ELSE led[i]]

Forget(led, id) == [i \in DOMAIN led \ {id} |-> led[i]]

\* the keyword arguments upload_image passes to create_image
UploadKwargs(file, form, o) ==
    [s3_key |-> o.put_key, s3_bucket |-> S3_BUCKET_NAME,
     file_name |-> OrDefault(file.filename, S_image_jpg),
     file_size |-> file.body.len,
     mime_type |-> OrDefault(file.content_type, S_image_jpeg),
     name |-> form.name, width |-> get_image_dimensions(file.body)[1],
     height |-> get_image_dimensions(file.body)[2],
     description |-> form.description, tags |-> form.tags]

\* uploads that pass every check
GoodFiles ==
    {File(body, filename, NONE) :
        body \in {Body(1, TRUE), Body(MAX_FILE_SIZE, TRUE)},
        filename \in {NONE, <<"a",".","J","P","G">>}}

\* the uploads a client sends: the good ones, one that fails each single check
\* of validate_image, and one that fails them all
UploadFiles ==
    LET base == File(Body(1, TRUE), <<"a",".","J","P","G">>, NONE)
    IN GoodFiles \cup
       {[base EXCEPT !.body = Body(MAX_FILE_SIZE + 1, TRUE)],
        [base EXCEPT !.body = Body(1, FALSE)],
        [base EXCEPT !.filename = <<"a",".","g","i","f">>],
        [base EXCEPT !.filename = <<"a">>],
        [base EXCEPT !.content_type = S_image_gif],
        File(Body(MAX_FILE_SIZE + 1, TRUE), <<"a">>, S_image_gif)}

UploadForms ==
    {[name |-> <<"c","a","t">>, description |-> NONE, tags |-> NONE],
     [name |-> <<"d","o","g">>, description |-> <<"p","e","t">>,
      tags |-> <<"c","a","t",",","d","o","g">>]}

RouterDbFaults == {"none", "commit"}

\* a client posts a file to /api/images
UploadImage ==
    \E file \in UploadFiles, form \in UploadForms,
       s3_fault \in BOOLEAN, db_fault \in RouterDbFaults :
        LET o == upload_image(State, is_postgres, now, file, form, s3_fault, db_fault)
        IN /\ Completes("upload", o, file)
           /\ created' = IF o.status = 200
                          THEN Ledger(created, o.image_id, UploadKwargs(file, form, o))
                          ELSE created

\* a client deletes /api/images/{image_id}
DeleteImage ==
    \E image_id \in 1..(MaxImages + 1), get_fault \in RouterDbFaults,
       s3_fault \in BOOLEAN, db_fault \in RouterDbFaults :
        LET o == delete_image(State, is_postgres, image_id, get_fault, s3_fault, db_fault)
        IN /\ Completes("delete", o, NoArgs)
           /\ created' = IF o.status = 200 THEN Forget(created, image_id) ELSE created

\* db_service.create_image called with keyword arguments a
CreateImageCall(a, fault) ==
    LET cr == db_create_image(State.db, is_postgres, a, uuid_next, now, fault)
    IN /\ Completes("create",
                    Outcome([State EXCEPT !.db = cr.db, !.uuid = uuid_next + 1],
                            IF cr.exc = "none" THEN 200 ELSE 500,
                            IF cr.exc = "none" THEN "none" ELSE "catalog.insert",
                            "ok",
                            IF cr.exc = "none" THEN <<"catalog.insert">> ELSE <<>>,
                            NONE, cr.ret, NONE),
                    a)
       /\ created' = IF cr.exc = "none" THEN Ledger(created, cr.ret, a) ELSE created

StoredKey == S3Key(S_image_jpg, <<"j","p","e","g">>)

SeedArgs ==
    [s3_key : {StoredKey}, s3_bucket : {S3_BUCKET_NAME}, file_name : {S_image_jpg},
     file_size : {1}, mime_type : {S_image_jpeg},
     name : {<<"c","a","t">>}, width : {4},
     height : {3}, description : {NONE}, tags : {NONE}]

CreateImage == \E a \in SeedArgs, fault \in DbFaults : CreateImageCall(a, fault)

Next == UploadImage \/ DeleteImage \/ CreateImage

Spec == Init /\ [][Next]_vars

-----------------------------------------------------------------------------
(* The catalog on its own: the calls of DatabaseService *)

\* db_service.create_image is called with one of these
CatalogArgs ==
    {[s3_key |-> StoredKey, s3_bucket |-> S3_BUCKET_NAME, file_name |-> S_image_jpg,
      file_size |-> 1, mime_type |-> S_image_jpeg, name |-> <<"c","a","t">>,
      width |-> 4, height |-> 3, description |-> NONE, tags |-> NONE],
     [s3_key |-> S3Key(<<"a",".","J","P","G">>, <<"p","n","g">>),
      s3_bucket |-> S3_BUCKET_NAME, file_name |-> <<"a",".","J","P","G">>,
      file_size |-> MAX_FILE_SIZE, mime_type |-> S_image_png, name |-> <<"d","o","g">>,
      width |-> 0, height |-> 0, description |-> <<"p","e","t">>,
      tags |-> <<"c","a","t",",","d","o","g">>],
     [s3_key |-> StoredKey, s3_bucket |-> S3_BUCKET_NAME, file_name |-> S_image_jpg,
      file_size |-> 1, mime_type |-> S_image_jpeg, name |-> <<"d","o","g">>,
      width |-> 4, height |-> 3, description |-> NONE, tags |-> <<"c","a","t">>]}

CatalogCreate == \E a \in CatalogArgs, fault \in DbFaults : CreateImageCall(a, fault)

\* db_service.delete_image(image_id)
CatalogDelete ==
    \E image_id \in 1..(MaxImages + 1), fault \in DbFaults :
        LET rm == db_delete_image(State.db, is_postgres, image_id, fault)
        IN /\ Completes("db.delete",
                        Outcome([State EXCEPT !.db = rm.db],
                                IF rm.exc # "none" THEN 500 ELSE IF rm.ret THEN 200 ELSE 404,
                                IF rm.exc # "none" THEN "catalog.delete" ELSE "none",
                                "ok",
                                IF rm.ret THEN <<"catalog.delete">> ELSE <<>>,
                                NONE, image_id, NONE),
                        NoArgs)
           /\ created' = IF rm.exc = "none" THEN Forget(created, image_id) ELSE created

\* db_service.get_image(image_id)
CatalogGet ==
    \E image_id \in 1..(MaxImages + 1), fault \in DbFaults :
        LET got == db_get_image(State.db, image_id, fault)
        IN /\ Completes("db.get",
                        Outcome(State,
                                IF got.exc # "none" THEN 500
                                ELSE IF got.ret = {} THEN 404 ELSE 200,
                                IF got.exc # "none" THEN "catalog.get" ELSE "none",
                                "ok", <<>>, NONE, image_id, NONE),
                        IF got.ret = {} THEN NoArgs ELSE CHOOSE d \in got.ret : TRUE)
           /\ UNCHANGED created

\* a second passes on the database clock
Tick ==
    /\ now < MaxTime
    /\ now' = now + 1
    /\ UNCHANGED <<blobs, images, images_fts, is_postgres, uuid_next,
                   vectors, metadata, urls, resp, created>>

NextCatalog == CatalogCreate \/ CatalogDelete \/ CatalogGet \/ Tick

SpecCatalog == Init /\ [][NextCatalog]_vars

-----------------------------------------------------------------------------
(* Listing and counting: DatabaseService.list_images and count_images, and *)
(* GET /api/images of app/routers/images.py                                *)

\* text LIKE pattern: % stands for any run of characters, _ for any one
\* character; SQLite compares ASCII letters without regard to case,
\* PostgreSQL compares them exactly
RECURSIVE Like(_, _, _)
Like(text, pattern, fold) ==
    IF pattern = <<>> THEN text = <<>>
    ELSE IF Head(pattern) = "%"
    THEN \/ Like(text, Tail(pattern), fold)
         \/ text # <<>> /\ Like(Tail(text), pattern, fold)
    ELSE /\ text # <<>>
         /\ \/ Head(pattern) = "_"
            \/ Head(text) = Head(pattern)
            \/ fold /\ LowerChar(Head(text)) = LowerChar(Head(pattern))
         /\ Like(Tail(text), Tail(pattern), fold)

\* WHERE tags LIKE '%' || tag_filter || '%' (no row when tags IS NULL), or no
\* WHERE clause when tag_filter is None or empty
Selected(rows, postgres, tag_filter) ==
    IF tag_filter = NONE \/ tag_filter = <<>> THEN rows
    ELSE {r \in rows : /\ r.tags # NONE
                       /\ Like(r.tags, <<"%">> \o tag_filter \o <<"%">>, ~postgres)}

\* ORDER BY created_at DESC: the orders in which the engine may return the
\* rows; rows of equal created_at come in any order
OrderByCreatedAtDesc(rows) ==
    {ord \in [1..Cardinality(rows) -> rows] :
        /\ \A i, j \in DOMAIN ord : i # j => ord[i] # ord[j]
        /\ \A i, j \in DOMAIN ord : i < j => ord[i].created_at >= ord[j].created_at}

\* LIMIT limit OFFSET offset
LimitOffset(ord, limit, offset) ==
    SubSeq(ord, offset + 1, IF offset + limit < Len(ord) THEN offset + limit ELSE Len(ord))

\* DatabaseService.list_images: the lists of dicts the call may return
db_list_images(db, postgres, page, limit, tag_filter) ==
    LET offset == (page - 1) * limit
    IN {[i \in DOMAIN LimitOffset(ord, limit, offset) |->
            RowDict(LimitOffset(ord, limit, offset)[i])] :
        ord \in OrderByCreatedAtDesc(Selected(db.images, postgres, tag_filter))}

\* a count that leaves the filter out
db_count_images_unfiltered(db, postgres, tag_filter) == Cardinality(db.images)

\* DatabaseService.count_images
db_count_images(db, postgres, tag_filter) ==
    Cardinality(Selected(db.images, postgres, tag_filter))

\* the ImageDetail list of list_images: one get_presigned_url call per row, the
\* first exception leaves the loop
RECURSIVE BuildImages(_, _)
BuildImages(images_data, n) ==
    IF n = 0 THEN [exc |-> "none", images |-> <<>>]
    ELSE LET before == BuildImages(images_data, n - 1)
             img_data == images_data[n]
             image_url == s3_get_presigned_url(<<img_data.s3_key>>, FALSE)
         IN IF before.exc # "none" THEN before
            ELSE IF image_url.exc # "none" THEN [exc |-> image_url.exc, images |-> <<>>]
            ELSE [exc |-> "none",
                  images |-> Append(before.images,
                                    [image_id |-> img_data.image_id,
                                     image_url |-> image_url.ret,
                                     tags |-> img_data.tags,
                                     created_at |-> img_data.created_at])]

\* list_images of the router, images_data being what db_service.list_images
\* returned
list_images(db, postgres, page, limit, tag, images_data, db_fault) ==
    LET total == db_count_images(db, postgres, tag)
        built == BuildImages(images_data, Len(images_data))
    IN IF db_fault # "none"
       THEN [status |-> 500, failed_at |-> "catalog.list", images |-> <<>>, total |-> 0]
       ELSE IF built.exc # "none"
       THEN [status |-> 500, failed_at |-> "locator.call", images |-> <<>>, total |-> 0]
       ELSE [status |-> 200, failed_at |-> "none", images |-> built.images,
             total |-> total]

TagFilters == {NONE, <<>>, <<"c","a","t">>, <<"_","A","T">>}

PageSizes == {1, 2}

Pages == 1..MaxImages

ListingResponse(op, status, failed_at, args) ==
    /\ resp' = [op |-> op, seq |-> resp.seq, status |-> status,
                failed_at |-> failed_at, verdict |-> "ok", steps |-> <<>>,
                put_key |-> NONE, image_id |-> 0, image_url |-> NONE, args |-> args]
    /\ UNCHANGED <<blobs, images, images_fts, is_postgres, uuid_next, now,
                   vectors, metadata, urls, created>>

\* images without tags and images tagged "cat"
ListingArgs == {a \in CatalogArgs : a.description = NONE}

\* db_service.create_image, the database healthy
ListingCreate == \E a \in ListingArgs : CreateImageCall(a, "none")

\* db_service.list_images(page, limit, tag_filter)
CatalogList ==
    \E page \in Pages, limit \in PageSizes, tag_filter \in TagFilters :
        \E rows \in db_list_images(State.db, is_postgres, page, limit, tag_filter) :
            ListingResponse("db.list", 200, "none",
                            [page |-> page, limit |-> limit, tag_filter |-> tag_filter,
                             rows |-> rows])

\* db_service.count_images(tag_filter)
CatalogCount ==
    \E tag_filter \in TagFilters :
        ListingResponse("db.count", 200, "none",
                        [tag_filter |-> tag_filter,
                         total |-> db_count_images(State.db, is_postgres, tag_filter)])

\* a client gets /api/images?page=&limit=&tag=
ListImages ==
    \E page \in Pages, limit \in PageSizes, tag \in TagFilters,
       db_fault \in RouterDbFaults :
        \E images_data \in db_list_images(State.db, is_postgres, page, limit, tag) :
            LET o == list_images(State.db, is_postgres, page, limit, tag,
                                 images_data, db_fault)
            IN ListingResponse("list", o.status, o.failed_at,
                               [page |-> page, limit |-> limit, tag_filter |-> tag,
                                rows |-> o.images, total |-> o.total])

NextListing == ListingCreate \/ Tick \/ CatalogList \/ CatalogCount

SpecListing == Init /\ [][NextListing]_vars

NextBrowse == ListingCreate \/ Tick \/ ListImages

SpecBrowse == Init /\ [][NextBrowse]_vars

-----------------------------------------------------------------------------
(* Full-text search: DatabaseService.search_images.  Texts are made of     *)
(* lower-case words, commas and blanks; no word is an English stop word or *)
(* is changed by the English stemmer.                                      *)

IsWordChar(c) == c \notin {",", " "}

\* the words of a text as the unicode61 tokenizer of FTS5 and the parser of
\* to_tsvector cut them: maximal runs of word characters
Tokens(text) ==
    IF text = NONE THEN {}
    ELSE {SubSeq(text, ij[1], ij[2]) :
            ij \in {ij \in (1..Len(text)) \X (1..Len(text)) :
                      /\ ij[1] <= ij[2]
                      /\ \A k \in ij[1]..ij[2] : IsWordChar(text[k])
                      /\ ij[1] = 1 \/ ~IsWordChar(text[ij[1] - 1])
                      /\ ij[2] = Len(text) \/ ~IsWordChar(text[ij[2] + 1])}}

\* str.split(): maximal runs of characters that are not blanks
SplitBlanks(text) ==
    {SubSeq(text, ij[1], ij[2]) :
        ij \in {ij \in (1..Len(text)) \X (1..Len(text)) :
                  /\ ij[1] <= ij[2]
                  /\ \A k \in ij[1]..ij[2] : text[k] # " "
                  /\ ij[1] = 1 \/ text[ij[1] - 1] = " "
                  /\ ij[2] = Len(text) \/ text[ij[2] + 1] = " "}}

IsPrefix(p, w) == Len(p) <= Len(w) /\ SubSeq(w, 1, Len(p)) = p

\* the words of the indexed columns name, description, tags
IndexedWords(r) == Tokens(r.name) \cup Tokens(r.description) \cup Tokens(r.tags)

\* images_fts MATCH 't1* OR t2* ...': some term begins some indexed word
FtsMatch(entry, terms) ==
    \E t \in terms : \E w \in IndexedWords(entry) : IsPrefix(t, w)

\* to_tsvector('english', name || ' ' || description || ' ' || tags)
\*   @@ plainto_tsquery('english', query): every word of the query is a word
\* of the row; a query without words matches no row
TsMatch(row, query) ==
    /\ Tokens(query) # {}
    /\ Tokens(query) \subseteq IndexedWords(row)

\* the orders in which a statement may return rows: ORDER BY rank of FTS5
\* (bm25 is not computed here, every order is admitted), ORDER BY created_at
\* DESC of PostgreSQL
SearchOrders(rows, postgres) ==
    IF postgres THEN OrderByCreatedAtDesc(rows)
    ELSE {ord \in [1..Cardinality(rows) -> rows] :
             \A i, j \in DOMAIN ord : i # j => ord[i] # ord[j]}

\* DatabaseService.search_images: the exception, or the lists of dicts the
\* call may return
db_search_images(db, postgres, query, limit) ==
    LET search_terms == SplitBlanks(query)
        hit == IF postgres
               THEN {r \in db.images : TsMatch(r, query)}
               ELSE {r \in db.images :
                       \E e \in db.fts : e.rowid = r.rowid /\ FtsMatch(e, search_terms)}
    IN IF ~postgres /\ (search_terms = {}
                          \/ \E t \in search_terms : \E k \in 1..Len(t) : ~IsWordChar(t[k]))
       THEN [exc |-> "Exception", ret |-> {}]
       ELSE [exc |-> "none",
             ret |-> {[i \in DOMAIN LimitOffset(ord, limit, 0) |->
                          RowDict(LimitOffset(ord, limit, 0)[i])] :
                      ord \in SearchOrders(hit, postgres)}]

\* images with tags
TextArgs == {a \in CatalogArgs : a.tags # NONE}

TextQueries ==
    {<<"c","a","t">>, <<"c","a">>, <<"d","o","g">>, <<"d","o","g"," ","p","e","t">>,
     <<"c","a","t",",","d","o","g">>, <<>>}

\* db_service.create_image, the database healthy
TextCreate == \E a \in TextArgs : CreateImageCall(a, "none")

\* db_service.search_images(query, limit)
CatalogSearch ==
    \E query \in TextQueries, limit \in PageSizes :
        LET found == db_search_images(State.db, is_postgres, query, limit)
        IN IF found.exc # "none"
           THEN ListingResponse("db.search", 500, "catalog.search",
                                [query |-> query, limit |-> limit, rows |-> <<>>])
           ELSE \E rows \in found.ret :
                    ListingResponse("db.search", 200, "none",
                                    [query |-> query, limit |-> limit, rows |-> rows])

NextText == TextCreate \/ Tick \/ CatalogSearch

SpecText == Init /\ [][NextText]_vars

-----------------------------------------------------------------------------
(* InMemoryVectorStore.  A dict is the sequence of its [key, value] items  *)
(* in insertion order, which is the order Python iterates it in.           *)

DictKeys(d) == {d[i].key : i \in 1..Len(d)}

\* d.setdefault(k, v): a present key keeps its value
DictSetDefault(d, k, v) ==
    IF k \in DictKeys(d) THEN d ELSE Append(d, [key |-> k, value |-> v])

\* d[k] = v: a new key is appended, a present key keeps its place
DictSet(d, k, v) ==
    IF k \in DictKeys(d)
    THEN [i \in 1..Len(d) |-> IF d[i].key = k THEN [key |-> k, value |-> v] ELSE d[i]]
    ELSE Append(d, [key |-> k, value |-> v])

\* d.pop(k, None)
DictPop(d, k) == SelectSeq(d, LAMBDA item : item.key # k)

\* d[k]: the value, or KeyError
DictGet(d, k) ==
    IF k \in DictKeys(d)
    THEN [exc |-> "none", ret |-> d[CHOOSE i \in 1..Len(d) : d[i].key = k].value]
    ELSE [exc |-> "KeyError", ret |-> NONE]

\* InMemoryVectorStore.add_vector
vs_add_vector(vs, image_id, vector, meta, image_url) ==
    [vectors |-> DictSet(vs.vectors, image_id, vector),
     metadata |-> DictSet(vs.metadata, image_id, meta),
     urls |-> DictSet(vs.urls, image_id, image_url)]

\* a delete_vector that pops the vector and the URL and leaves the metadata
vs_delete_vector_keeps_metadata(vs, image_id) ==
    [vectors |-> DictPop(vs.vectors, image_id),
     metadata |-> vs.metadata,
     urls |-> DictPop(vs.urls, image_id)]

\* InMemoryVectorStore.delete_vector
vs_delete_vector(vs, image_id) ==
    [vectors |-> DictPop(vs.vectors, image_id),
     metadata |-> DictPop(vs.metadata, image_id),
     urls |-> DictPop(vs.urls, image_id)]

\* InMemoryVectorStore.count
vs_count(vs) == Len(vs.vectors)

\* np.dot of two vectors of the same dimension
RECURSIVE DotUpTo(_, _, _)
DotUpTo(a, b, n) == IF n = 0 THEN 0 ELSE DotUpTo(a, b, n - 1) + a[n] * b[n]

\* InMemoryVectorStore._cosine_similarity
cosine_similarity(vec1, vec2) == DotUpTo(vec1, vec2, Len(vec1))

\* a descending sort that puts an item in front of the earlier items of its score
RECURSIVE SortByScoreDescTiesReversed(_)
SortByScoreDescTiesReversed(pairs) ==
    IF pairs = <<>> THEN <<>>
    ELSE LET n == Len(pairs)
             last == pairs[n]
             front == SortByScoreDescTiesReversed(SubSeq(pairs, 1, n - 1))
             at == Cardinality({i \in 1..Len(front) : front[i][2] > last[2]})
         IN SubSeq(front, 1, at) \o <<last>> \o SubSeq(front, at + 1, Len(front))

\* list.sort(key=lambda x: x[1], reverse=True): stable, larger scores first
RECURSIVE SortByScoreDesc(_)
SortByScoreDesc(pairs) ==
    IF pairs = <<>> THEN <<>>
    ELSE LET n == Len(pairs)
             last == pairs[n]
             front == SortByScoreDesc(SubSeq(pairs, 1, n - 1))
             \* last goes behind every earlier item whose score is not smaller
             at == Cardinality({i \in 1..Len(front) : front[i][2] >= last[2]})
         IN SubSeq(front, 1, at) \o <<last>> \o SubSeq(front, at + 1, Len(front))

\* seq[:k - 1]
SliceBefore(seq, k) == SubSeq(seq, 1, IF k - 1 < Len(seq) THEN k - 1 ELSE Len(seq))

\* seq[:k]
SliceTo(seq, k) ==
    IF k >= 0 THEN SubSeq(seq, 1, IF k < Len(seq) THEN k ELSE Len(seq))
    ELSE SubSeq(seq, 1, IF Len(seq) + k > 0 THEN Len(seq) + k ELSE 0)

\* InMemoryVectorStore.search
vs_search(vs, query_vector, top_k) ==
    IF vs.vectors = <<>> THEN <<>>
    ELSE LET similarities ==
                 [i \in 1..Len(vs.vectors) |->
                     <<vs.vectors[i].key,
                       cosine_similarity(query_vector, vs.vectors[i].value)>>]
         IN SliceTo(SortByScoreDesc(similarities), top_k)

-----------------------------------------------------------------------------
(* The vector store on its own: the calls of the global vector_store *)

VectorStore == [vectors |-> vectors, metadata |-> metadata, urls |-> urls]

\* unit vectors of dimension 2
VectorValues == {<<1, 0>>, <<0, 1>>, <<-1, 0>>}

ImageMetadataValues == {[name |-> <<"c","a","t">>, description |-> NONE, tags |-> NONE]}

IndexCompletes(op, vs, status, image_id, args) ==
    /\ vectors' = vs.vectors
    /\ metadata' = vs.metadata
    /\ urls' = vs.urls
    /\ resp' = [op |-> op, seq |-> resp.seq, status |-> status,
                failed_at |-> "none", verdict |-> "ok", steps |-> <<>>,
                put_key |-> NONE, image_id |-> image_id, image_url |-> NONE,
                args |-> args]
    /\ UNCHANGED <<blobs, images, images_fts, is_postgres, uuid_next, now, created>>

AddVector ==
    \E image_id \in 1..MaxVectors, vector \in VectorValues, meta \in ImageMetadataValues :
        IndexCompletes("vs.add",
                       vs_add_vector(VectorStore, image_id, vector, meta,
                                     S3Url(StoredKey)),
                       200, image_id, NoArgs)

DeleteVector ==
    \E image_id \in 1..MaxVectors :
        IndexCompletes("vs.delete", vs_delete_vector(VectorStore, image_id),
                       200, image_id, NoArgs)

SearchVectors ==
    \E query_vector \in VectorValues, top_k \in 1..MaxTopK :
        IndexCompletes("vs.search", VectorStore, 200, 0,
                       [query_vector |-> query_vector, top_k |-> top_k,
                        hits |-> vs_search(VectorStore, query_vector, top_k)])

NextIndex == AddVector \/ DeleteVector \/ SearchVectors

\* the vector store never reads DATABASE_URL: one catalog backend is enough
InitIndex == Init /\ is_postgres = FALSE

SpecIndex == InitIndex /\ [][NextIndex]_vars

-----------------------------------------------------------------------------
(* POST /api/search of app/routers/search.py, as a function of the vector  *)
(* store.  A posted file is its body and the feature vector ResNet50       *)
(* yields for it.  SearchResult is taken as the record of its keyword      *)
(* arguments.                                                              *)

MAX_IMAGE_SIZE == 10485760

\* ImageProcessor.validate_image: "ok", or the ValueError it raises
ip_validate_image(image_bytes, max_size) ==
    IF image_bytes.len > max_size THEN "size"
    ELSE IF ~image_bytes.decodes THEN "decode"
    ELSE "ok"

\* ImageProcessor.extract_features: every failure inside becomes a ValueError
extract_features(file, fault) ==
    IF fault \/ ~file.body.decodes THEN [exc |-> "ValueError", ret |-> <<>>]
    ELSE [exc |-> "none", ret |-> file.features]

\* InMemoryVectorStore.get_metadata
vs_get_metadata(vs, image_id) == DictGet(vs.metadata, image_id)

\* InMemoryVectorStore.get_url
vs_get_url(vs, image_id) == DictGet(vs.urls, image_id)

\* the loop over similar_images: one SearchResult per hit, in order; the first
\* exception leaves the loop
RECURSIVE BuildResults(_, _, _)
BuildResults(vs, similar_images, n) ==
    IF n = 0 THEN [exc |-> "none", results |-> <<>>]
    ELSE LET before == BuildResults(vs, similar_images, n - 1)
             image_id == similar_images[n][1]
             meta == vs_get_metadata(vs, image_id)
             image_url == vs_get_url(vs, image_id)
         IN IF before.exc # "none" THEN before
            ELSE IF meta.exc # "none" THEN [exc |-> meta.exc, results |-> <<>>]
            ELSE IF image_url.exc # "none" THEN [exc |-> image_url.exc, results |-> <<>>]
            ELSE [exc |-> "none",
                  results |-> Append(before.results,
                                     [image_id |-> image_id, image_url |-> image_url.ret,
                                      similarity_score |-> similar_images[n][2],
                                      metadata |-> meta.ret])]

SearchOutcome(status, failed_at, results) ==
    [status |-> status, failed_at |-> failed_at, results |-> results,
     total |-> Len(results)]

\* search_similar_images
search_similar_images(vs, file, limit, extract_fault) ==
    LET verdict == ip_validate_image(file.body, MAX_IMAGE_SIZE)
        query_vector == extract_features(file, extract_fault)
        similar_images == vs_search(vs, query_vector.ret, limit)
        built == BuildResults(vs, similar_images, Len(similar_images))
    IN IF verdict # "ok" THEN SearchOutcome(StatusOf("ValueError"), "validate", <<>>)
       ELSE IF query_vector.exc # "none"
       THEN SearchOutcome(StatusOf(query_vector.exc), "extract", <<>>)
       ELSE IF built.exc # "none"
       THEN SearchOutcome(StatusOf(built.exc), "results", <<>>)
       ELSE SearchOutcome(200, "none", built.results)

\* the files a client posts to /api/search
QueryFiles == {[body |-> Body(1, TRUE), features |-> v] : v \in VectorValues}

SearchFiles ==
    QueryFiles \cup {[body |-> Body(MAX_IMAGE_SIZE + 1, TRUE), features |-> <<1, 0>>],
                     [body |-> Body(1, FALSE), features |-> <<1, 0>>]}

\* a client posts a file to /api/search
SearchSimilarImages ==
    \E file \in SearchFiles, limit \in 1..MaxTopK, extract_fault \in BOOLEAN :
        LET o == search_similar_images(VectorStore, file, limit, extract_fault)
        IN /\ resp' = [op |-> "search", seq |-> resp.seq, status |-> o.status,
                       failed_at |-> o.failed_at, verdict |-> "ok", steps |-> <<>>,
                       put_key |-> NONE, image_id |-> 0, image_url |-> NONE,
                       args |-> [file |-> file, limit |-> limit,
                                 results |-> o.results, total |-> o.total]]
           /\ UNCHANGED <<blobs, images, images_fts, is_postgres, uuid_next, now,
                          vectors, metadata, urls, created>>

NextSearch == AddVector \/ DeleteVector \/ SearchSimilarImages

SpecSearch == InitIndex /\ [][NextSearch]_vars

-----------------------------------------------------------------------------
(* A handler and the external call it waits for.  The handlers call boto3  *)
(* and the database driver synchronously and pass no deadline: a handler   *)
(* that has issued a call takes its next step when the call returns or     *)
(* raises, and has no step of its own before that.  A request in flight is *)
(* a response record with status 0 that names the pending call.            *)

\* no request is being handled
Idle == resp.op = "none" \/ resp.status # 0

Awaits(op, call, request) ==
    /\ Idle
    /\ resp' = [op |-> op, seq |-> resp.seq, status |-> 0, failed_at |-> "none",
                verdict |-> "ok", steps |-> <<>>, put_key |-> NONE, image_id |-> 0,
                image_url |-> NONE,
                args |-> [request |-> request, call |-> call, returned |-> FALSE,
                          fault |-> FALSE]]
    /\ UNCHANGED <<blobs, images, images_fts, is_postgres, uuid_next, now,
                   vectors, metadata, urls, created>>

\* upload_image has validated the file and calls s3_client.put_object
UploadCallsPutObject ==
    \E file \in GoodFiles, form \in UploadForms :
        Awaits("upload", "blob.put", [file |-> file, form |-> form])

\* delete_image calls db_service.get_image
DeleteCallsGetImage ==
    \E image_id \in 1..MaxImages :
        Awaits("delete", "catalog.get", [image_id |-> image_id])

\* the external service answers the pending call, with a result or an error
ExternalCallReturns ==
    /\ resp.op # "none" /\ resp.status = 0 /\ ~resp.args.returned
    /\ \E fault \in BOOLEAN :
          resp' = [resp EXCEPT !.args.returned = TRUE, !.args.fault = fault]
    /\ UNCHANGED <<blobs, images, images_fts, is_postgres, uuid_next, now,
                   vectors, metadata, urls, created>>

\* upload_image runs on from the answer of put_object to its response
UploadContinues ==
    /\ resp.op = "upload" /\ resp.status = 0 /\ resp.args.returned
    /\ LET file == resp.args.request.file
           o == upload_image(State, is_postgres, now, file, resp.args.request.form,
                             resp.args.fault, "none")
       IN /\ Completes("upload", o, file)
          /\ created' = IF o.status = 200
                         THEN Ledger(created, o.image_id,
                                     UploadKwargs(file, resp.args.request.form, o))
                         ELSE created

\* delete_image runs on from the answer of get_image to its response
DeleteContinues ==
    /\ resp.op = "delete" /\ resp.status = 0 /\ resp.args.returned
    /\ LET image_id == resp.args.request.image_id
           o == delete_image(State, is_postgres, image_id,
                             IF resp.args.fault THEN "execute" ELSE "none",
                             FALSE, "none")
       IN /\ Completes("delete", o, NoArgs)
          /\ created' = IF o.status = 200 THEN Forget(created, image_id) ELSE created

NextDeadline ==
    \/ UploadCallsPutObject
    \/ DeleteCallsGetImage
    \/ ExternalCallReturns
    \/ UploadContinues
    \/ DeleteContinues

\* the event loop runs a handler whose call has returned; nothing makes an
\* external service answer
SpecDeadline ==
    /\ Init
    /\ [][NextDeadline]_vars
    /\ WF_vars(UploadContinues)
    /\ WF_vars(DeleteContinues)

-----------------------------------------------------------------------------
(* InMemoryVectorStore called from several threads.  The class holds no     *)
(* lock, so a search is interleaved with add_vector and delete_vector      *)
(* between two rounds of its loop over self.vectors.items().  The iterator *)
(* of a dict remembers the size of the dict when it was made and its place *)
(* in the entry table; ahead is the part of the entry table behind that    *)
(* place, followed while the table is not rebuilt.                         *)

\* a search is inside its loop
Scanning == resp.op = "vs.scan" /\ resp.status = 0

ScanRecord(status, failed_at, args) ==
    [op |-> "vs.scan", seq |-> resp.seq, status |-> status, failed_at |-> failed_at,
     verdict |-> "ok", steps |-> <<>>, put_key |-> NONE, image_id |-> 0,
     image_url |-> NONE, args |-> args]

ScanQueries == {<<1, 0>>}

\* what a search that has ended leaves: its arguments and its result
Ended(a, hits) ==
    [query_vector |-> a.query_vector, top_k |-> a.top_k, used |-> 0, ahead |-> <<>>,
     similarities |-> <<>>, hits |-> hits]

ScanVectors == {<<1, 0>>, <<0, 1>>}

\* search up to the first round of its loop: [] for an empty store, else the
\* iterator of self.vectors.items()
ScanBegins ==
    /\ ~Scanning
    /\ \E query_vector \in ScanQueries, top_k \in {1, MaxTopK} :
          resp' = ScanRecord(IF vectors = <<>> THEN 200 ELSE 0, "none",
                             [query_vector |-> query_vector, top_k |-> top_k,
                              used |-> Len(vectors), ahead |-> vectors,
                              similarities |-> <<>>, hits |-> <<>>])
    /\ UNCHANGED <<blobs, images, images_fts, is_postgres, uuid_next, now,
                   vectors, metadata, urls, created>>

\* one round of the loop.  The iterator raises RuntimeError when the size of
\* the dict is not the size it remembers, or when it meets an item after it
\* has yielded as many as it remembers; at the end of the table the loop
\* ends and search sorts and slices what it has collected.
ScanNext ==
    /\ Scanning
    /\ LET a == resp.args
           item == Head(a.ahead)
           pair == <<item.key, cosine_similarity(a.query_vector, item.value)>>
       IN resp' = IF Len(vectors) # a.used
                  THEN ScanRecord(500, "RuntimeError", Ended(a, <<>>))
                  ELSE IF a.ahead = <<>>
                  THEN ScanRecord(200, "none",
                           Ended(a, SliceTo(SortByScoreDesc(a.similarities), a.top_k)))
                  ELSE IF Len(a.similarities) = a.used
                  THEN ScanRecord(500, "RuntimeError", Ended(a, <<>>))
                  ELSE ScanRecord(0, "none",
                           [a EXCEPT !.ahead = Tail(a.ahead),
                                     !.similarities = Append(a.similarities, pair)])
    /\ UNCHANGED <<blobs, images, images_fts, is_postgres, uuid_next, now,
                   vectors, metadata, urls, created>>

\* the rest of the entry table after d[k] = v
AheadSet(ahead, d, k, v) ==
    IF k \notin DictKeys(d) THEN Append(ahead, [key |-> k, value |-> v])
    ELSE IF k \in DictKeys(ahead) THEN DictSet(ahead, k, v)
    ELSE ahead

\* the store after a call of another thread; a running search keeps its
\* iterator
ThreadCompletes(vs, ahead) ==
    /\ vectors' = vs.vectors
    /\ metadata' = vs.metadata
    /\ urls' = vs.urls
    /\ resp' = IF Scanning THEN [resp EXCEPT !.args.ahead = ahead] ELSE resp
    /\ UNCHANGED <<blobs, images, images_fts, is_postgres, uuid_next, now, created>>

\* another thread calls add_vector
ThreadAddsVector ==
    \E image_id \in 1..MaxVectors, vector \in ScanVectors, meta \in ImageMetadataValues :
        ThreadCompletes(vs_add_vector(VectorStore, image_id, vector, meta,
                                      S3Url(StoredKey)),
                        IF Scanning
                        THEN AheadSet(resp.args.ahead, vectors, image_id, vector)
                        ELSE <<>>)

\* another thread calls delete_vector
ThreadDeletesVector ==
    \E image_id \in 1..MaxVectors :
        ThreadCompletes(vs_delete_vector(VectorStore, image_id),
                        IF Scanning THEN DictPop(resp.args.ahead, image_id) ELSE <<>>)

NextScan == ScanBegins \/ ScanNext \/ ThreadAddsVector \/ ThreadDeletesVector

SpecScan == InitIndex /\ [][NextScan]_vars

-----------------------------------------------------------------------------
(* The transactions of the catalog: each call of DatabaseService with the  *)
(* calls it makes on its connection (field steps of the response)          *)

\* a call of DatabaseService has returned or raised
TransactionEnds(op, db, uuid, exc, calls, image_id) ==
    /\ Completes(op,
                 Outcome([State EXCEPT !.db = db, !.uuid = uuid],
                         IF exc = "none" THEN 200 ELSE 500,
                         IF exc = "none" THEN "none" ELSE "catalog",
                         "ok", calls, NONE, image_id, NONE),
                 NoArgs)
    /\ UNCHANGED created

\* db_service.create_image(**a)
TxCreate ==
    \E a \in ListingArgs, fault \in DbFaults :
        LET cr == db_create_image(State.db, is_postgres, a, uuid_next, now, fault)
        IN TransactionEnds("tx.create", cr.db, uuid_next + 1, cr.exc, cr.calls, cr.ret)

\* db_service.delete_image(image_id)
TxDelete ==
    \E image_id \in 1..(MaxImages + 1), fault \in DbFaults :
        LET rm == db_delete_image(State.db, is_postgres, image_id, fault)
        IN TransactionEnds("tx.delete", rm.db, uuid_next, rm.exc, rm.calls, image_id)

\* db_service.get_image(image_id)
TxGet ==
    \E image_id \in 1..(MaxImages + 1), fault \in DbFaults :
        LET got == db_get_image(State.db, image_id, fault)
        IN TransactionEnds("tx.get", State.db, uuid_next, got.exc, got.calls, image_id)

NextTransaction == TxCreate \/ TxDelete \/ TxGet

SpecTransaction == Init /\ [][NextTransaction]_vars

-----------------------------------------------------------------------------
(* Properties *)

CatalogIds == {r.image_id : r \in images}

Untouched(v) == v' = v

StoresUnchanged ==
    /\ Untouched(blobs) /\ Untouched(images) /\ Untouched(images_fts)
    /\ Untouched(vectors) /\ Untouched(metadata) /\ Untouched(urls)

\* an upload the Validating step has to refuse: too large, a MIME type or an
\* extension outside the allowed sets, or bytes that are no image
InvalidUpload(file) ==
    \/ file.body.len > MAX_FILE_SIZE
    \/ OrDefault(file.content_type, S_image_jpeg) \notin ALLOWED_MIME_TYPES
    \/ FileExt(OrDefault(file.filename, S_image_jpg)) \notin ALLOWED_EXTENSIONS
    \/ ~file.body.decodes

\* the steps of a handler at which a store (S3 or the database) failed
StoreFailures == {"blob.put", "catalog.insert", "catalog.get", "blob.delete",
                  "catalog.delete"}

\* C1: an upload that wrote its blob and then failed has, when it returns,
\* deleted that blob again, and the catalog holds no row except those of
\* create calls that returned an id.
C1_FailedUploadLeavesNoOrphan ==
    (resp.op = "upload" /\ resp.status # 200 /\ resp.put_key # NONE)
        => /\ resp.put_key \notin DOMAIN blobs
           /\ CatalogIds \subseteq DOMAIN created

\* C2: a DeleteImage of an id the catalog holds, with no store failing, reports
\* success, and from then on the catalog (hence every listing and text search)
\* is without that id.
C2_FirstDeleteSucceeds ==
    (resp.op = "delete" /\ resp.failed_at \notin StoreFailures \cup {"not_found"})
        => /\ resp.status = 200
           /\ resp.image_id \notin CatalogIds

\* C3: an upload that is oversized, or has a MIME type or an extension outside
\* the allowed sets, or does not decode as an image, is answered with 400 (a
\* client-side failure) and changes neither the bucket, nor the catalog or its
\* text index, nor the vector store.
C3_ValidationFailureHasNoSideEffects ==
    [][(resp'.seq # resp.seq /\ resp'.op = "upload" /\ InvalidUpload(resp'.args))
          => (resp'.status = 400 /\ StoresUnchanged)]_vars

C3_Witness ==
    /\ resp.op = "upload" /\ InvalidUpload(resp.args) /\ resp.verdict = "extension"
    /\ DOMAIN blobs # {} /\ images # {}

\* C4: an upload that passes validation and meets no failure of the bucket or
\* of the catalog is committed: it is answered with 200, the assigned id and a
\* locator, and at that moment the blob and the catalog row of that id exist.
C4_ValidUploadCommits ==
    (resp.op = "upload" /\ ~InvalidUpload(resp.args)
        /\ resp.failed_at \notin StoreFailures)
        => /\ resp.status = 200
           /\ resp.image_id \in CatalogIds
           /\ resp.put_key \in DOMAIN blobs
           /\ resp.image_url # NONE

\* the fields of a record that the caller of create supplied
SuppliedFields(d) ==
    [file_name |-> d.file_name, file_size |-> d.file_size, mime_type |-> d.mime_type,
     name |-> d.name, description |-> d.description, tags |-> d.tags]

\* C5: for every id that create returned and that has not been deleted since,
\* get(id) yields one record, whose fileName, fileSize, mimeType, displayName,
\* description and tags equal the arguments that create was given; this holds
\* of every get that has returned a record.
C5_RoundTrip ==
    /\ \A id \in DOMAIN created :
          LET got == db_get_image(State.db, id, "none")
          IN /\ Cardinality(got.ret) = 1
             /\ \A d \in got.ret : SuppliedFields(d) = SuppliedFields(created[id])
    /\ (resp.op = "db.get" /\ resp.status = 200)
          => /\ resp.image_id \in DOMAIN created
             /\ resp.args.image_id = resp.image_id
             /\ SuppliedFields(resp.args) = SuppliedFields(created[resp.image_id])

C5_Witness ==
    /\ resp.op = "db.get" /\ resp.status = 200
    /\ resp.args.description # NONE
    /\ Cardinality(images) = 2

\* C6: whenever no request is in flight, the ids of the catalog are the ids of
\* the vector store.
C6_StoresAgreeOnLiveIds == CatalogIds = DictKeys(vectors)

\* C7: after every catalog call, committed or rolled back, the entries of the
\* full-text table are exactly those of the rows of images (SQLite backend;
\* the PostgreSQL backend keeps no table besides images).
C7_TextIndexMatchesRows ==
    images_fts = IF is_postgres THEN {} ELSE {FtsEntry(r) : r \in images}

C7_Witness ==
    /\ ~is_postgres
    /\ resp.op = "db.delete" /\ resp.status = 200
    /\ images # {}
    /\ resp.image_id \notin {e.image_id : e \in images_fts}

\* C8: a DeleteImage of an id that was never issued changes no store, and is
\* answered with 404 unless the catalog lookup itself failed.
C8_DeleteOfUnknownIdIsNotFound ==
    [][(resp'.seq # resp.seq /\ resp'.op = "delete" /\ resp'.image_id >= uuid_next)
          => /\ StoresUnchanged
             /\ resp'.failed_at # "catalog.get" => resp'.status = 404]_vars

C8_Witness ==
    /\ resp.op = "delete" /\ resp.status = 404 /\ resp.image_id >= uuid_next
    /\ DOMAIN blobs # {} /\ images # {}

\* C9: a DeleteImage of an id the catalog holds, with no store failing, removes
\* the catalog row, then the vector entry, then the blob.
C9_DeletionOrder ==
    (resp.op = "delete" /\ resp.failed_at \notin StoreFailures \cup {"not_found"})
        => resp.steps = <<"catalog.delete", "vector.delete", "blob.delete">>

Min(a, b) == IF a < b THEN a ELSE b

\* C10: whatever the index holds (n entries), search(q, k) with k >= 1 returns
\* exactly min(k, n) hits, with pairwise distinct ids that are all stored; on an
\* empty index that is the empty list.  The last answered search is one of them.
C10_SearchCountBound ==
    /\ \A q \in VectorValues, k \in 1..MaxTopK :
          LET hits == vs_search(VectorStore, q, k)
          IN /\ Len(hits) = Min(k, vs_count(VectorStore))
             /\ \A i, j \in 1..Len(hits) : hits[i][1] = hits[j][1] => i = j
             /\ \A i \in 1..Len(hits) : hits[i][1] \in DictKeys(vectors)
    /\ resp.op = "vs.search"
          => Len(resp.args.hits) = Min(resp.args.top_k, vs_count(VectorStore))

C10_Witness ==
    /\ resp.op = "vs.search"
    /\ resp.args.top_k = 2
    /\ vs_count(VectorStore) = 3
    /\ Len(resp.args.hits) = 2

\* place of a key in a dict's iteration order
DictIndex(d, k) == CHOOSE i \in 1..Len(d) : d[i].key = k

\* the score of a stored id against a query
StoredScore(q, k) == cosine_similarity(q, DictGet(vectors, k).ret)

\* C11: the list search returns is sorted by score, largest first; no stored
\* entry left out scores higher than a returned one; hits of equal score come
\* in the order their ids were first inserted; every hit carries the score of
\* its stored vector, and the search answered last returned that very list.
C11_SearchRanking ==
    /\ \A q \in VectorValues, k \in 1..MaxTopK :
          LET hits == vs_search(VectorStore, q, k)
              returned == {hits[i][1] : i \in 1..Len(hits)}
          IN /\ \A i \in 1..Len(hits) : hits[i][2] = StoredScore(q, hits[i][1])
             /\ \A i, j \in 1..Len(hits) : i < j => hits[i][2] >= hits[j][2]
             /\ \A id \in DictKeys(vectors) \ returned :
                    \A i \in 1..Len(hits) : hits[i][2] >= StoredScore(q, id)
             /\ \A i, j \in 1..Len(hits) :
                    (i < j /\ hits[i][2] = hits[j][2])
                        => DictIndex(vectors, hits[i][1]) < DictIndex(vectors, hits[j][1])
    /\ resp.op = "vs.search"
          => resp.args.hits = vs_search(VectorStore, resp.args.query_vector,
                                        resp.args.top_k)

C11_Witness ==
    /\ resp.op = "vs.search"
    /\ Len(resp.args.hits) = 2
    /\ resp.args.hits[1][2] = resp.args.hits[2][2]
    /\ resp.args.hits[1][1] > resp.args.hits[2][1]
    /\ vs_count(VectorStore) = 3

\* the ids of a list of hits or of results, in order
HitIds(hits) == [i \in 1..Len(hits) |-> hits[i][1]]

ResultIds(results) == [i \in 1..Len(results) |-> results[i].image_id]

RowIds(rows) == {rows[i].image_id : i \in 1..Len(rows)}

\* C13: over an unchanged catalog, page p + 1 of a listing repeats no record of
\* page p (same page size and filter), and pages 1 and 2 together hold every
\* selected record when two pages have room for them all.
C13_PagesCoverEachRecordOnce ==
    [][(/\ resp.op = "db.list" /\ resp'.op = "db.list"
        /\ resp'.args.limit = resp.args.limit
        /\ resp'.args.tag_filter = resp.args.tag_filter
        /\ resp'.args.page = resp.args.page + 1)
          => /\ RowIds(resp.args.rows) \cap RowIds(resp'.args.rows) = {}
             /\ (resp.args.page = 1
                   /\ db_count_images(State.db, is_postgres, resp.args.tag_filter)
                         <= 2 * resp.args.limit)
                  => RowIds(resp.args.rows) \cup RowIds(resp'.args.rows)
                       = {r.image_id :
                            r \in Selected(images, is_postgres, resp.args.tag_filter)}]_vars

\* C14: the rows of a page returned by list come with created_at descending,
\* and rows of equal created_at with image_id ascending.
C14_ListOrdering ==
    resp.op = "db.list"
        => \A i, j \in 1..Len(resp.args.rows) :
              i < j => LET a == resp.args.rows[i]
                           b == resp.args.rows[j]
                       IN \/ a.created_at > b.created_at
                          \/ a.created_at = b.created_at /\ a.image_id < b.image_id

\* the lengths a page of a listing may have
PageLens(tag_filter, limit, page) ==
    {Len(rows) : rows \in db_list_images(State.db, is_postgres, page, limit, tag_filter)}

\* the number of records on pages 1..page
RECURSIVE ListedUpTo(_, _, _)
ListedUpTo(tag_filter, limit, page) ==
    IF page = 0 THEN 0
    ELSE ListedUpTo(tag_filter, limit, page - 1)
           + (CHOOSE n \in PageLens(tag_filter, limit, page) : TRUE)

\* C15: the number count(tag_filter) answers, for every filter (absent, empty
\* or not), is the number of records on all pages of the listing with that
\* filter, whatever the page size; each page has one possible length and the
\* page after the last record is empty.
C15_CountAgreesWithList ==
    resp.op = "db.count"
        => LET pages == Cardinality(images) + 1
               tag_filter == resp.args.tag_filter
           IN \A limit \in PageSizes :
                 /\ \A page \in 1..pages :
                        Cardinality(PageLens(tag_filter, limit, page)) = 1
                 /\ PageLens(tag_filter, limit, pages) = {0}
                 /\ resp.args.total = ListedUpTo(tag_filter, limit, pages)

C15_Witness ==
    /\ resp.op = "db.count"
    /\ resp.args.tag_filter = <<"c","a","t">>
    /\ resp.args.total = 1
    /\ Cardinality(images) = 2

\* sub occurs in text as a run of consecutive characters
Contains(text, sub) ==
    \E i \in 0..(Len(text) - Len(sub)) : SubSeq(text, i + 1, i + Len(sub)) = sub

\* C16: GET /api/images with a tag filter, the catalog healthy, answers 200
\* with records whose tags contain the filter, newest first, and with all of
\* them when the page has room.
C16_TagFilterSelectsBySubstring ==
    (/\ resp.op = "list" /\ resp.failed_at # "catalog.list"
     /\ resp.args.tag_filter \notin {NONE, <<>>})
        => LET tagged == {r \in images : /\ r.tags # NONE
                                         /\ Contains(r.tags, resp.args.tag_filter)}
               rows == resp.args.rows
           IN /\ resp.status = 200
              /\ RowIds(rows) \subseteq {r.image_id : r \in tagged}
              /\ (resp.args.page = 1 /\ Cardinality(tagged) <= resp.args.limit)
                    => RowIds(rows) = {r.image_id : r \in tagged}
              /\ \A i, j \in 1..Len(rows) :
                    i < j => rows[i].created_at >= rows[j].created_at

\* the row of a returned dict
RowOf(d) == CHOOSE r \in images : r.image_id = d.image_id

\* some word of the query begins a word of the record's name, description or tags
MatchesSomeWord(r, query) ==
    \E t \in Tokens(query) : \E w \in IndexedWords(r) : IsPrefix(t, w)

\* every word of the query is a word of the record's name, description or tags
MatchesEveryWord(r, query) ==
    Tokens(query) # {} /\ Tokens(query) \subseteq IndexedWords(r)

\* C17: a text search for a query that holds a word (limit >= 1) returns: at
\* most limit records of the catalog, no record twice, each with a word of its
\* name, description or tags begun by a word of the query; when it returns
\* fewer than limit records, it returns every record that holds all words of
\* the query.
C17_TextSearchResultSet ==
    (resp.op = "db.search" /\ Tokens(resp.args.query) # {})
        => LET rows == resp.args.rows
               query == resp.args.query
           IN /\ resp.status = 200
              /\ Len(rows) <= resp.args.limit
              /\ \A i, j \in 1..Len(rows) : rows[i].image_id = rows[j].image_id => i = j
              /\ \A i \in 1..Len(rows) :
                    /\ rows[i].image_id \in CatalogIds
                    /\ rows[i] = RowDict(RowOf(rows[i]))
                    /\ MatchesSomeWord(RowOf(rows[i]), query)
              /\ Len(rows) < resp.args.limit
                    => \A r \in images :
                          MatchesEveryWord(r, query) => r.image_id \in RowIds(rows)

\* the number of words of a record that are words of the query
TermHits(d, query) ==
    LET Hits(text) == Cardinality(Tokens(text) \cap Tokens(query))
    IN Hits(d.name) + Hits(d.description) + Hits(d.tags)

\* two records with the same indexed text
SameText(a, b) ==
    a.name = b.name /\ a.description = b.description /\ a.tags = b.tags

\* C18: on either backend the records a text search returns come with the
\* more relevant first (a record holding more of the query's words before one
\* holding fewer), and records of the same text, hence of the same relevance,
\* with created_at descending.
C18_TextSearchRanking ==
    (resp.op = "db.search" /\ resp.status = 200)
        => LET rows == resp.args.rows
               query == resp.args.query
           IN \A i, j \in 1..Len(rows) :
                 i < j => /\ is_postgres
                               => TermHits(rows[i], query) >= TermHits(rows[j], query)
                          /\ SameText(rows[i], rows[j])
                               => rows[i].created_at >= rows[j].created_at

\* C19: an upload is answered with a client-side status (400) only when its
\* input fails validation; an upload that passes validation and still fails is
\* answered with a server-side status (500).
C19_ClientErrorOnlyOnInvalidInput ==
    (resp.op = "upload" /\ ~InvalidUpload(resp.args) /\ resp.status # 200)
        => resp.status = 500

\* the URLs the vector store keeps
StoredUrls == {urls[i].value : i \in 1..Len(urls)}

\* C20: no store keeps a URL for an image, and no result of a similarity
\* search hands out a URL taken from a store.
C20_LocatorsAreNotPersisted ==
    /\ StoredUrls = {}
    /\ resp.op = "search"
          => \A i \in 1..Len(resp.args.results) :
                resp.args.results[i].image_url \notin StoredUrls

\* C21: every request that has been taken up is eventually answered, also
\* when the external call it waits for never returns.
C21_EveryRequestTerminates ==
    (resp.op # "none" /\ resp.status = 0) ~> (resp.status # 0)

\* C22: a similarity search accepts a posted file exactly when an upload of
\* the same file passes validate_image, and answers a file it rejects with
\* status 400.
C22_QueryValidationEqualsIngestion ==
    \A file \in UploadFiles, v \in VectorValues :
        LET query == [body |-> file.body, features |-> v]
            o == search_similar_images(VectorStore, query, 1, FALSE)
            ingest == validate_image(file.body, OrDefault(file.filename, S_image_jpg),
                                     OrDefault(file.content_type, S_image_jpeg))
        IN /\ (o.failed_at # "validate") <=> (ingest = "ok")
           /\ (o.failed_at = "validate") => (o.status = 400)

\* C23: an upload that writes a blob writes it under a key that holds no blob
\* yet, so no two uploads share a key and none overwrites the blob of another.
C23_BlobKeysAreUnique ==
    [][(resp'.op = "upload" /\ resp'.seq # resp.seq /\ resp'.put_key # NONE)
          => resp'.put_key \notin DOMAIN blobs]_vars

\* C24: a search that runs while other threads add and delete vectors ends
\* without an error, and its result names no image twice.
C24_SearchIsSafeUnderConcurrency ==
    resp.op = "vs.scan"
        => /\ resp.status # 500
           /\ \A i, j \in 1..Len(resp.args.hits) :
                 resp.args.hits[i][1] = resp.args.hits[j][1] => i = j

\* the calls a catalog operation made on its connection form one transaction
\* on a connection of its own: opened first, closed last, committed or
\* rolled back in between
OneTransaction(calls) ==
    /\ calls[1] = "connect"
    /\ calls[Len(calls)] = "close"
    /\ Cardinality({i \in 1..Len(calls) : calls[i] = "connect"}) = 1
    /\ Cardinality({i \in 1..Len(calls) : calls[i] = "close"}) = 1

\* C25: a catalog operation that completes has committed its transaction, one
\* that raises has rolled it back and leaves the catalog with the content it
\* had before; the connection is closed in both cases.
C25_TransactionPerOperation ==
    [][(resp'.seq # resp.seq /\ resp'.op \in {"tx.create", "tx.delete", "tx.get"})
          => LET calls == resp'.steps
             IN /\ resp'.status = 200
                      => /\ OneTransaction(calls)
                         /\ calls = <<"connect", "commit", "close">>
                /\ resp'.status = 500
                      => /\ images' = images /\ images_fts' = images_fts
                         /\ calls # <<>>
                               => /\ OneTransaction(calls)
                                  /\ calls[Len(calls) - 1] = "rollback"]_vars

\* a create_image whose commit raised, in a catalog that holds a row
C25_Witness ==
    /\ resp.op = "tx.create" /\ resp.status = 500
    /\ resp.steps = <<"connect", "commit", "rollback", "close">>
    /\ images # {}

\* the items of a dict other than the one of key k, in order
Others(d, k) == SelectSeq(d, LAMBDA item : item.key # k)

\* C26: add_vector(id, vector, ...) leaves exactly one entry for id, holding
\* the given vector; the count grows by one when id was absent and stays when
\* it was present; the other entries are unchanged.  delete_vector of an absent
\* id raises nothing and leaves the store unchanged.
C26_UpsertReplaces ==
    \A image_id \in 1..MaxVectors :
        /\ \A vector \in VectorValues, meta \in ImageMetadataValues :
              LET after == vs_add_vector(VectorStore, image_id, vector, meta,
                                         S3Url(StoredKey))
              IN /\ Cardinality({i \in 1..Len(after.vectors) :
                                    after.vectors[i].key = image_id}) = 1
                 /\ DictGet(after.vectors, image_id) = [exc |-> "none", ret |-> vector]
                 /\ vs_count(after) = vs_count(VectorStore)
                                        + (IF image_id \in DictKeys(vectors) THEN 0 ELSE 1)
                 /\ Others(after.vectors, image_id) = Others(vectors, image_id)
        /\ image_id \notin DictKeys(vectors)
              => vs_delete_vector(VectorStore, image_id) = VectorStore

\* add_vector has replaced the entry of an id: the id it was called with has
\* entries added later behind it
C26_Witness ==
    /\ resp.op = "vs.add"
    /\ Len(vectors) >= 2
    /\ vectors[1].key = resp.image_id
    /\ vectors[1].value # vectors[2].value

\* every row of the catalog names a blob the blob store holds
Referential(rows, bucket) == \A r \in rows : r.s3_key \in DOMAIN bucket

C28_MapsShareTheirKeys ==
    /\ DictKeys(vectors) = DictKeys(metadata)
    /\ DictKeys(vectors) = DictKeys(urls)
    /\ \A query_vector \in VectorValues, top_k \in 1..MaxTopK :
          LET hits == vs_search(VectorStore, query_vector, top_k)
          IN \A i \in 1..Len(hits) :
                /\ vs_get_metadata(VectorStore, hits[i][1]).exc = "none"
                /\ vs_get_url(VectorStore, hits[i][1]).exc = "none"

\* delete_vector has removed an id and left other entries behind
C28_Witness ==
    /\ resp.op = "vs.delete"
    /\ resp.image_id \notin DictKeys(vectors)
    /\ Len(vectors) = MaxVectors - 1
    /\ Len(metadata) = MaxVectors - 1

====
